---- MODULE Spec2Model ----
(***************************************************************************)
(* Model of the dependencies analyzer (src/index.js): the manifest         *)
(* locator, the manifest parser, the three external analyses (libyear,     *)
(* npm-check, the npm registry), the per-dependency join and the CSV       *)
(* output, as one sequential run of the script's async main function.      *)
(***************************************************************************)
EXTENDS Integers, Sequences, FiniteSets, TLC

VARIABLES
    rootExists,                \* fs.existsSync(rootDir)
    rootDir,                   \* process.argv[2] || './', as path segments
    tree,                      \* directory listing under rootDir (fs.readdirSync / fs.statSync)
    pc,                        \* position of the main function
    packageJsonFiles,          \* result of findPackageJsonFiles(rootDir)
    fileIdx,                   \* position of `file` in packageJsonFiles (for ... of)
    dependencies,              \* analyzeDependencies(file, rootDirName)
    libyearResults,            \* await runLibyearAnalysis(file)
    npmCheckResults,           \* await runNpmCheck(file)
    nodeCompatibilityResults,  \* `results` of runNodeCompatibility
    csvData,                   \* accumulated report rows
    csvFile,                   \* records written to analysis-result-<root>.csv
    writeCount,                \* number of csvWriter.writeRecords calls
    outstanding,               \* external calls issued and not yet resolved
    abortCause,                \* the uncaught error that ended the run, "" if none
    manifestLog,               \* per manifest: what the run observed and did
    probe                      \* findLatestCompatibleVersion applied on its own

vars == <<rootExists, rootDir, tree, pc, packageJsonFiles, fileIdx, dependencies,
          libyearResults, npmCheckResults, nodeCompatibilityResults, csvData,
          csvFile, writeCount, outstanding, abortCause, manifestLog, probe>>

-----------------------------------------------------------------------------
(* Bounds of the model *)

MaxManifests == 2      \* manifests found in one run
MaxEntries == 4        \* directory entries in a tree given to the locator alone
MaxVersions == 2       \* published versions in a registry snapshot

-----------------------------------------------------------------------------
(* JavaScript values: undefined, null, numbers (in thousandths), strings,  *)
(* booleans, objects and arrays, with the language's truthiness.           *)

Undefined == [t |-> "undefined", n |-> 0, s |-> ""]
Null == [t |-> "null", n |-> 0, s |-> ""]
JsNum(n) == [t |-> "number", n |-> n, s |-> ""]
JsStr(s) == [t |-> "string", n |-> 0, s |-> s]
JsBool(b) == [t |-> "boolean", n |-> IF b THEN 1 ELSE 0, s |-> ""]

Truthy(v) ==
    CASE v.t = "undefined" -> FALSE
      [] v.t = "null" -> FALSE
      [] v.t = "number" -> v.n # 0
      [] v.t = "string" -> v.s # ""
      [] v.t = "boolean" -> v.n = 1
      [] OTHER -> TRUE          \* objects and arrays

\* a || b
JsOr(a, b) == IF Truthy(a) THEN a ELSE b

-----------------------------------------------------------------------------
(* Paths, as sequences of segments; <<".">> is the current directory.      *)

PathJoin(dir, name) == IF dir = <<".">> THEN <<name>> ELSE Append(dir, name)
PathDirname(p) == IF Len(p) = 1 THEN <<".">> ELSE SubSeq(p, 1, Len(p) - 1)
PathBasename(p) == p[Len(p)]

-----------------------------------------------------------------------------
(* Manifest Locator *)

File(name) == [name |-> name, kind |-> "file", children |-> <<>>]
Dir(name, children) == [name |-> name, kind |-> "dir", children |-> children]

\* Faulty variant: the walk descends into node_modules too
RECURSIVE findPackageJsonFilesNoSkip(_, _)
findPackageJsonFilesNoSkip(dir, files) ==
    IF files = <<>> THEN <<>>
    ELSE LET file == Head(files)
             fullPath == PathJoin(dir, file.name)
             found == IF file.kind = "dir"
                          THEN findPackageJsonFilesNoSkip(fullPath, file.children)
                      ELSE IF file.name = "package.json" THEN <<fullPath>>
                      ELSE <<>>
         IN found \o findPackageJsonFilesNoSkip(dir, Tail(files))

\* findPackageJsonFiles(dir), `files` being fs.readdirSync(dir) with each
\* entry's stat and, for a directory, its own listing.
RECURSIVE findPackageJsonFiles(_, _)
findPackageJsonFiles(dir, files) ==
    IF files = <<>> THEN <<>>
    ELSE LET file == Head(files)
             fullPath == PathJoin(dir, file.name)
             found == IF file.kind = "dir" /\ file.name # "node_modules"
                          THEN findPackageJsonFiles(fullPath, file.children)
                      ELSE IF file.name = "package.json" THEN <<fullPath>>
                      ELSE <<>>
         IN found \o findPackageJsonFiles(dir, Tail(files))

\* Directory trees for the locator on its own: listings in name order, with at
\* most n entries in the whole tree, over the names that matter to the walk.
LocatorNames == <<"node_modules", "package.json", "pkgs">>

RECURSIVE TreeSize(_)
TreeSize(files) ==
    IF files = <<>> THEN 0
    ELSE 1 + TreeSize(Head(files).children) + TreeSize(Tail(files))

RECURSIVE ListingsFrom(_, _)
ListingsFrom(i, n) ==
    IF n = 0 \/ i > Len(LocatorNames) THEN {<<>>}
    ELSE ListingsFrom(i + 1, n)
         \cup { <<File(LocatorNames[i])>> \o rest : rest \in ListingsFrom(i + 1, n - 1) }
         \cup UNION { { <<Dir(LocatorNames[i], c)>> \o rest :
                          rest \in ListingsFrom(i + 1, n - 1 - TreeSize(c)) } :
                      c \in ListingsFrom(1, n - 1) }

-----------------------------------------------------------------------------
(* semver ranges, by the interval of Node major versions they admit.       *)
(* A string semver cannot parse makes semver.intersects throw.             *)

SemverRange(range) ==
    CASE range = "^16.0.0" -> [valid |-> TRUE, lo |-> 16, hi |-> 16]
      [] range = "^18.0.0" -> [valid |-> TRUE, lo |-> 18, hi |-> 18]
      [] range = "^20.0.0" -> [valid |-> TRUE, lo |-> 20, hi |-> 20]
      [] range = ">=12 <16" -> [valid |-> TRUE, lo |-> 12, hi |-> 15]
      [] range = ">=16" -> [valid |-> TRUE, lo |-> 16, hi |-> 999]
      [] range = ">=18 <20" -> [valid |-> TRUE, lo |-> 18, hi |-> 19]
      [] range = "*" -> [valid |-> TRUE, lo |-> 0, hi |-> 999]
      [] OTHER -> [valid |-> FALSE, lo |-> 0, hi |-> 0]

SemverThrows(r1, r2) == ~SemverRange(r1).valid \/ ~SemverRange(r2).valid

SemverIntersects(r1, r2) ==
    LET a == SemverRange(r1)
        b == SemverRange(r2)
    IN a.lo <= b.hi /\ b.lo <= a.hi

-----------------------------------------------------------------------------
(* Node-Compatibility Resolver *)

isCompatibleWithNodeVersion(engineRange, nodeVersionRange) ==
    IF ~Truthy(engineRange) THEN FALSE
    ELSE IF SemverThrows(engineRange.s, nodeVersionRange) THEN FALSE
    ELSE SemverIntersects(engineRange.s, nodeVersionRange)

\* A registry body: what axios leaves in response.data. An object carries its
\* `versions` mapping as the sequence of its entries in key order, when it has
\* one; a body that is not JSON stays a string.
NpmObject(versions) ==
    [t |-> "object", n |-> 0, s |-> "", hasVersions |-> TRUE, versions |-> versions]
NpmObjectNoVersions ==
    [t |-> "object", n |-> 0, s |-> "", hasVersions |-> FALSE, versions |-> <<>>]
NpmText(s) ==
    [t |-> "string", n |-> 0, s |-> s, hasVersions |-> FALSE, versions |-> <<>>]
NA == NpmText("N/A")

compatibleVersions(npmData, nodeVersion) ==
    LET Compatible(v) == isCompatibleWithNodeVersion(v.node, nodeVersion)
    IN SelectSeq(npmData.versions, Compatible)

\* Object.keys(undefined) throws a TypeError
findLatestCompatibleVersionThrows(npmData) ==
    Truthy(npmData) /\ ~npmData.hasVersions

\* Faulty variant: the first compatible version instead of the last
findFirstCompatibleVersion(npmData, nodeVersion) ==
    IF ~Truthy(npmData) THEN "Not informed"
    ELSE LET compatible == compatibleVersions(npmData, nodeVersion)
         IN IF Len(compatible) > 0
                THEN compatible[1].version
                ELSE "Not informed"

findLatestCompatibleVersion(npmData, nodeVersion) ==
    IF ~Truthy(npmData) THEN "Not informed"
    ELSE LET compatible == compatibleVersions(npmData, nodeVersion)
         IN IF Len(compatible) > 0
                THEN compatible[Len(compatible)].version
                ELSE "Not informed"

\* fetchNpmPackageInfo, given how the request ended
fetchNpmPackageInfo(response) ==
    IF response.outcome = "ok" THEN response.data ELSE NA

findNodeCompatibilityThrows(response) ==
    LET npmData == fetchNpmPackageInfo(response)
    IN ~(~Truthy(npmData) \/ npmData = NA) /\ findLatestCompatibleVersionThrows(npmData)

findNodeCompatibility(response) ==
    LET npmData == fetchNpmPackageInfo(response)
    IN IF ~Truthy(npmData) \/ npmData = NA
           THEN [node16Version |-> "N/A", node18Version |-> "N/A", node20Version |-> "N/A"]
           ELSE [node16Version |-> findLatestCompatibleVersion(npmData, "^16.0.0"),
                 node18Version |-> findLatestCompatibleVersion(npmData, "^18.0.0"),
                 node20Version |-> findLatestCompatibleVersion(npmData, "^20.0.0")]

-----------------------------------------------------------------------------
(* Manifest Parser *)

\* A manifest file: whether JSON.parse accepts it, and its two dependency
\* groups, each absent or the sequence of its entries in key order.
Manifest(hasDeps, deps, hasDev, dev) ==
    [parses |-> TRUE, hasDependencies |-> hasDeps, dependencies |-> deps,
     hasDevDependencies |-> hasDev, devDependencies |-> dev]
UnparseableManifest ==
    [parses |-> FALSE, hasDependencies |-> FALSE, dependencies |-> <<>>,
     hasDevDependencies |-> FALSE, devDependencies |-> <<>>]

\* Faulty variant: the root manifest is labelled like any other
moduleLabelAlwaysPrefixed(packageJsonPath, rootDirName) ==
    LET dirName == PathBasename(PathDirname(packageJsonPath))
    IN rootDirName \o "/" \o dirName

\* const module = dirName === rootDirName ? dirName : `${rootDirName}/${dirName}`
moduleLabel(packageJsonPath, rootDirName) ==
    LET dirName == PathBasename(PathDirname(packageJsonPath))
    IN IF dirName = rootDirName THEN dirName ELSE rootDirName \o "/" \o dirName

analyzeDependencies(packageJson, packageJsonPath, rootDirName) ==
    LET productionDeps == IF packageJson.hasDependencies
                              THEN packageJson.dependencies ELSE <<>>
        devDeps == IF packageJson.hasDevDependencies
                       THEN packageJson.devDependencies ELSE <<>>
        module == moduleLabel(packageJsonPath, rootDirName)
    IN [i \in 1..Len(productionDeps) |->
            [dependency |-> productionDeps[i].name, type |-> "production",
             version |-> productionDeps[i].range, module |-> module]]
       \o
       [i \in 1..Len(devDeps) |->
            [dependency |-> devDeps[i].name, type |-> "development",
             version |-> devDeps[i].range, module |-> module]]

-----------------------------------------------------------------------------
(* Report Assembler *)

TwoDigits(k) == IF k < 10 THEN "0" \o ToString(k) ELSE ToString(k)

\* Faulty variant: a missing number is formatted as zero
formatDecimalZeroDefault(value) ==
    LET hundredths == (value.n + 5) \div 10
    IN ToString(hundredths \div 100) \o "," \o TwoDigits(hundredths % 100)

\* value.toFixed(2).replace('.', ','), value in thousandths
formatDecimal(value) ==
    IF value.t # "undefined" /\ value.t # "null"
        THEN LET hundredths == (value.n + 5) \div 10
             IN ToString(hundredths \div 100) \o "," \o TwoDigits(hundredths % 100)
        ELSE "Unknown"

\* Array.prototype.find, given the elements that pass its test in order:
\* <<>> for undefined, else the first of them alone
FindFirst(matches) == IF matches = <<>> THEN <<>> ELSE <<matches[1]>>

\* found?.field
Optional(found, field) == IF found = <<>> THEN Undefined ELSE found[1][field]

formatDependencyResult(dep, libyearDepResult, npmCheckResult, node16Version, node18Version, node20Version) ==
    [module |-> dep.module,
     dependency |-> dep.dependency,
     type |-> dep.type,
     currentVersion |-> dep.version,
     latestVersion |-> JsOr(Optional(libyearDepResult, "available"), JsStr("Unknown")),
     npmLatest |-> JsOr(Optional(npmCheckResult, "latest"), JsStr("Unknown")),
     npmWanted |-> JsOr(Optional(npmCheckResult, "packageWanted"), JsStr("Unknown")),
     easyUpgrade |-> JsOr(Optional(npmCheckResult, "easyUpgrade"), JsBool(FALSE)),
     node16Version |-> node16Version,
     node18Version |-> node18Version,
     node20Version |-> node20Version,
     unused |-> JsOr(Optional(npmCheckResult, "unused"), JsBool(FALSE)),
     drift |-> formatDecimal(Optional(libyearDepResult, "drift")),
     pulse |-> formatDecimal(Optional(libyearDepResult, "pulse")),
     releases |-> JsOr(Optional(libyearDepResult, "releases"), JsStr("0")),
     major |-> JsOr(Optional(libyearDepResult, "major"), JsStr("0")),
     minor |-> JsOr(Optional(libyearDepResult, "minor"), JsStr("0")),
     patch |-> JsOr(Optional(libyearDepResult, "patch"), JsStr("0"))]

\* Array.isArray(value)
IsArray(value) == value.t = "array"

\* One row per declaration: the body of `for (const dep of dependencies)`
joinRow(dep, libyear, npmCheck, nodeCompatibility) ==
    LET LibyearMatch(result) == result.dependency = dep.dependency
        NpmCheckMatch(result) == result.moduleName = dep.dependency
        CompatMatch(result) == result.dependency = dep.dependency
        libyearDepResult == FindFirst(SelectSeq(libyear.items, LibyearMatch))
        npmCheckDepResult == FindFirst(SelectSeq(npmCheck, NpmCheckMatch))
        nodeCompatibilityResult == FindFirst(SelectSeq(nodeCompatibility, CompatMatch))[1]
    IN formatDependencyResult(dep, libyearDepResult, npmCheckDepResult,
                              nodeCompatibilityResult.node16Version,
                              nodeCompatibilityResult.node18Version,
                              nodeCompatibilityResult.node20Version)

-----------------------------------------------------------------------------
(* What the run reads from outside: trees, manifests, and the ways each    *)
(* external call can end.                                                  *)

\* The value runLibyearAnalysis resolves with: stderr text or JSON.parse(stdout)
LyUnset == [t |-> "undefined", n |-> 0, s |-> "", items |-> <<>>]
LyText(s) == [t |-> "string", n |-> 0, s |-> s, items |-> <<>>]
LyNull == [t |-> "null", n |-> 0, s |-> "", items |-> <<>>]
LyObject == [t |-> "object", n |-> 0, s |-> "", items |-> <<>>]
LyArray(items) == [t |-> "array", n |-> 0, s |-> "", items |-> items]

LibyearRecord(name) ==
    [dependency |-> name, available |-> JsStr("9.9.9"), drift |-> JsNum(3141),
     pulse |-> JsNum(500), releases |-> JsNum(7), major |-> JsNum(1),
     minor |-> JsNum(0), patch |-> JsNum(2)]

NpmCheckRecord(name) ==
    [moduleName |-> name, latest |-> JsStr("9.9.9"), packageWanted |-> JsStr("1.2.3"),
     easyUpgrade |-> JsBool(TRUE), unused |-> JsBool(FALSE)]

\* How `libyear --json` can end: (error, stdout, stderr) of the exec callback
ExecOutcomes ==
    { [error |-> TRUE, stderr |-> "", stdoutIsJson |-> FALSE, stdout |-> LyUnset],
      [error |-> FALSE, stderr |-> "npm WARN", stdoutIsJson |-> FALSE, stdout |-> LyUnset],
      [error |-> FALSE, stderr |-> "", stdoutIsJson |-> FALSE, stdout |-> LyUnset] }
    \cup { [error |-> FALSE, stderr |-> "", stdoutIsJson |-> TRUE, stdout |-> v] :
             v \in { LyNull, LyObject, LyArray(<<>>), LyArray(<<LibyearRecord("a")>>),
                     LyArray(<<LibyearRecord("b"), LibyearRecord("a")>>) } }

\* How npmCheck({cwd}) can end: a rejection, or the 'packages' of its state
NpmCheckOutcomes ==
    { [rejected |-> TRUE, packages |-> <<>>],
      [rejected |-> FALSE, packages |-> <<>>],
      [rejected |-> FALSE, packages |-> <<NpmCheckRecord("a")>>] }

Version(v, node) == [version |-> v, node |-> node]

\* How axios.get(url) can end: a network error, a non-2xx status, or a 2xx
\* status with the body in response.data
RegistryResponses ==
    { [outcome |-> "networkError", data |-> NA],
      [outcome |-> "non2xx", data |-> NA] }
    \cup { [outcome |-> "ok", data |-> d] :
             d \in { NpmText(""), NpmText("<html>"), NpmObjectNoVersions,
                     NpmObject(<<Version("1.0.0", JsStr(">=12 <16")),
                                 Version("2.0.0", JsStr(">=16")),
                                 Version("3.0.0", Undefined)>>) } }

ManifestContents ==
    { UnparseableManifest,
      Manifest(FALSE, <<>>, FALSE, <<>>),
      Manifest(TRUE, <<[name |-> "a", range |-> "^1.0.0"]>>, FALSE, <<>>),
      Manifest(TRUE, <<[name |-> "a", range |-> "^1.0.0"]>>,
               TRUE, <<[name |-> "a", range |-> "~2.0.0"]>>),
      Manifest(TRUE, <<[name |-> "a", range |-> "^1.0.0"]>>,
               TRUE, <<[name |-> "b", range |-> "~2.0.0"]>>) }

Package == File("package.json")

\* The invocations of a run: the root directory given and the tree under it
RunInputs ==
    { [rootDir |-> <<".">>, tree |-> <<Package>>],
      [rootDir |-> <<"work", "myproj">>, tree |-> <<>>],
      [rootDir |-> <<"work", "myproj">>,
       tree |-> <<Dir("node_modules", <<Dir("dep", <<Package>>)>>), Package>>],
      [rootDir |-> <<"work", "myproj">>,
       tree |-> <<Package, Dir("pkgs", <<Dir("foo", <<Package>>)>>)>>],
      [rootDir |-> <<"work", "myproj">>,
       tree |-> <<Dir("pkgs", <<Dir("foo", <<Package>>), Dir("myproj", <<Package>>)>>)>>],
      [rootDir |-> <<"work", "myproj">>,
       tree |-> <<Package,
                  Dir("pkgs", <<Dir("foo", <<Package>>), Dir("myproj", <<Package>>)>>)>>] }

-----------------------------------------------------------------------------
(* The run: the async main function, one action per step between awaits.   *)

LibyearCall == [call |-> "libyear", file |-> fileIdx, dep |-> 0]
NpmCheckCall == [call |-> "npm-check", file |-> fileIdx, dep |-> 0]
RegistryCall == [call |-> "registry", file |-> fileIdx,
                 dep |-> Len(nodeCompatibilityResults) + 1]

rootDirName == PathBasename(rootDir)
file == packageJsonFiles[fileIdx]

Abort(cause) ==
    /\ pc' = "aborted"
    /\ abortCause' = cause

InitWith(exists, dir, listing) ==
    /\ rootExists = exists
    /\ rootDir = dir
    /\ tree = listing
    /\ pc = "start"
    /\ packageJsonFiles = <<>>
    /\ fileIdx = 0
    /\ dependencies = <<>>
    /\ libyearResults = LyUnset
    /\ npmCheckResults = <<>>
    /\ nodeCompatibilityResults = <<>>
    /\ csvData = <<>>
    /\ csvFile = <<>>
    /\ writeCount = 0
    /\ outstanding = {}
    /\ abortCause = ""
    /\ manifestLog = <<>>

Init ==
    /\ \E exists \in BOOLEAN, in \in RunInputs :
           /\ Len(findPackageJsonFiles(in.rootDir, in.tree)) <= MaxManifests
           /\ InitWith(exists, in.rootDir, in.tree)
    /\ probe = <<>>

\* if (!fs.existsSync(rootDir)) { ...; process.exit(1); }
DirectoryNotFound ==
    /\ pc = "start"
    /\ ~rootExists
    /\ pc' = "exited"
    /\ UNCHANGED <<rootExists, rootDir, tree, packageJsonFiles, fileIdx, dependencies,
                   libyearResults, npmCheckResults, nodeCompatibilityResults, csvData,
                   csvFile, writeCount, outstanding, abortCause, manifestLog, probe>>

\* const packageJsonFiles = findPackageJsonFiles(rootDir); const csvData = [];
FindManifests ==
    /\ pc = "start"
    /\ rootExists
    /\ packageJsonFiles' = findPackageJsonFiles(rootDir, tree)
    /\ fileIdx' = 1
    /\ pc' = "loop"
    /\ UNCHANGED <<rootExists, rootDir, tree, dependencies, libyearResults,
                   npmCheckResults, nodeCompatibilityResults, csvData, csvFile,
                   writeCount, outstanding, abortCause, manifestLog, probe>>

\* const dependencies = analyzeDependencies(file, rootDirName);
AnalyzeDependencies ==
    /\ pc = "loop"
    /\ fileIdx <= Len(packageJsonFiles)
    /\ \E packageJson \in ManifestContents :
           IF ~packageJson.parses
               THEN /\ Abort("SyntaxError: JSON.parse of the manifest")
                    /\ UNCHANGED <<dependencies, manifestLog>>
               ELSE /\ dependencies' = analyzeDependencies(packageJson, file, rootDirName)
                    /\ manifestLog' = Append(manifestLog,
                           [file |-> file, declared |-> dependencies', libyear |-> "",
                            steps |-> <<"parser">>, rowsBefore |-> Len(csvData),
                            rowsAfter |-> Len(csvData)])
                    /\ pc' = "libyear"
                    /\ UNCHANGED abortCause
    /\ UNCHANGED <<rootExists, rootDir, tree, packageJsonFiles, fileIdx, libyearResults,
                   npmCheckResults, nodeCompatibilityResults, csvData, csvFile,
                   writeCount, outstanding, probe>>

Logged(field, value) ==
    [manifestLog EXCEPT ![Len(manifestLog)][field] = value]

Stepped(step) ==
    [manifestLog EXCEPT ![Len(manifestLog)].steps = Append(@, step)]

\* runLibyearAnalysis up to exec(`libyear --json`, ...)
RunLibyearAnalysis ==
    /\ pc = "libyear"
    /\ outstanding' = outstanding \cup {LibyearCall}
    /\ pc' = "libyearExec"
    /\ UNCHANGED <<rootExists, rootDir, tree, packageJsonFiles, fileIdx, dependencies,
                   libyearResults, npmCheckResults, nodeCompatibilityResults, csvData,
                   csvFile, writeCount, abortCause, probe>>
    /\ manifestLog' = Stepped("libyear")

LibyearKind(out) ==
    IF out.error THEN "error"
    ELSE IF out.stderr # "" THEN "stderr"
    ELSE IF ~out.stdoutIsJson THEN "notJson"
    ELSE IF IsArray(out.stdout) THEN "list"
    ELSE "notList"

\* The exec callback, and main resuming from `await runLibyearAnalysis(file)`:
\* a rejection is caught nowhere, and neither is a throw of JSON.parse(stdout)
LibyearExit ==
    /\ pc = "libyearExec"
    /\ outstanding' = outstanding \ {LibyearCall}
    /\ \E out \in ExecOutcomes :
           /\ manifestLog' = Logged("libyear", LibyearKind(out))
           /\ IF out.error
                  THEN /\ Abort("libyear: exec error")
                       /\ UNCHANGED libyearResults
              ELSE IF out.stderr # ""
                  THEN /\ libyearResults' = LyText(out.stderr)
                       /\ pc' = "npmCheck"
                       /\ UNCHANGED abortCause
              ELSE IF ~out.stdoutIsJson
                  THEN /\ Abort("SyntaxError: JSON.parse of libyear's output")
                       /\ UNCHANGED libyearResults
              ELSE /\ libyearResults' = out.stdout
                   /\ pc' = "npmCheck"
                   /\ UNCHANGED abortCause
    /\ UNCHANGED <<rootExists, rootDir, tree, packageJsonFiles, fileIdx, dependencies,
                   npmCheckResults, nodeCompatibilityResults, csvData, csvFile,
                   writeCount, probe>>

\* runNpmCheck up to npmCheck({ cwd: dirPath })
RunNpmCheck ==
    /\ pc = "npmCheck"
    /\ outstanding' = outstanding \cup {NpmCheckCall}
    /\ pc' = "npmCheckRun"
    /\ UNCHANGED <<rootExists, rootDir, tree, packageJsonFiles, fileIdx, dependencies,
                   libyearResults, npmCheckResults, nodeCompatibilityResults, csvData,
                   csvFile, writeCount, abortCause, probe>>
    /\ manifestLog' = Stepped("npm-check")

\* runNpmCheck from its await on: the packages, or [] from the catch
NpmCheckSettled ==
    /\ pc = "npmCheckRun"
    /\ outstanding' = outstanding \ {NpmCheckCall}
    /\ \E out \in NpmCheckOutcomes :
           npmCheckResults' = IF out.rejected THEN <<>> ELSE out.packages
    /\ nodeCompatibilityResults' = <<>>
    /\ pc' = "nodeCompatibility"
    /\ UNCHANGED <<rootExists, rootDir, tree, packageJsonFiles, fileIdx, dependencies,
                   libyearResults, csvData, csvFile, writeCount, abortCause,
                   manifestLog, probe>>

\* Faulty variant: the requests of all remaining dependencies are issued at once
FetchAllNpmPackageInfo ==
    /\ pc = "nodeCompatibility"
    /\ Len(nodeCompatibilityResults) < Len(dependencies)
    /\ outstanding' = outstanding \cup
           { [call |-> "registry", file |-> fileIdx, dep |-> d] :
               d \in (Len(nodeCompatibilityResults) + 1)..Len(dependencies) }
    /\ pc' = "registryGet"
    /\ UNCHANGED <<rootExists, rootDir, tree, packageJsonFiles, fileIdx, dependencies,
                   libyearResults, npmCheckResults, nodeCompatibilityResults, csvData,
                   csvFile, writeCount, abortCause, probe>>
    /\ manifestLog' = Stepped("registry")

\* runNodeCompatibility's loop, up to axios.get(url) for the next dependency
FetchNpmPackageInfo ==
    /\ pc = "nodeCompatibility"
    /\ Len(nodeCompatibilityResults) < Len(dependencies)
    /\ outstanding' = outstanding \cup {RegistryCall}
    /\ pc' = "registryGet"
    /\ UNCHANGED <<rootExists, rootDir, tree, packageJsonFiles, fileIdx, dependencies,
                   libyearResults, npmCheckResults, nodeCompatibilityResults, csvData,
                   csvFile, writeCount, abortCause, probe>>
    /\ manifestLog' = Stepped("registry")

\* fetchNpmPackageInfo from its await on, findNodeCompatibility, results.push
RegistryResponse ==
    /\ pc = "registryGet"
    /\ outstanding' = outstanding \ {RegistryCall}
    /\ \E response \in RegistryResponses :
           LET dep == dependencies[Len(nodeCompatibilityResults) + 1]
               nodeCompatibility == findNodeCompatibility(response)
           IN IF findNodeCompatibilityThrows(response)
                  THEN /\ Abort("TypeError: Object.keys of undefined versions")
                       /\ UNCHANGED nodeCompatibilityResults
                  ELSE /\ nodeCompatibilityResults' = Append(nodeCompatibilityResults,
                              [dependency |-> dep.dependency,
                               node16Version |-> nodeCompatibility.node16Version,
                               node18Version |-> nodeCompatibility.node18Version,
                               node20Version |-> nodeCompatibility.node20Version])
                       /\ pc' = "nodeCompatibility"
                       /\ UNCHANGED abortCause
    /\ UNCHANGED <<rootExists, rootDir, tree, packageJsonFiles, fileIdx, dependencies,
                   libyearResults, npmCheckResults, csvData, csvFile, writeCount,
                   manifestLog, probe>>

\* Faulty variant: the Array.isArray test is left out
NoValidLibyearDataFalsyOnly == ~Truthy(libyearResults)

\* if (!libyearResults || !Array.isArray(libyearResults))
NoValidLibyearData == ~Truthy(libyearResults) \/ ~IsArray(libyearResults)

EndOfIteration ==
    /\ fileIdx' = fileIdx + 1
    /\ dependencies' = <<>>
    /\ libyearResults' = LyUnset
    /\ npmCheckResults' = <<>>
    /\ nodeCompatibilityResults' = <<>>
    /\ pc' = "loop"

\* { console.error(`No valid data from libyear for ${file}`); continue; }
SkipManifest ==
    /\ pc = "nodeCompatibility"
    /\ Len(nodeCompatibilityResults) = Len(dependencies)
    /\ NoValidLibyearData
    /\ manifestLog' = Stepped("skip")
    /\ EndOfIteration
    /\ UNCHANGED <<rootExists, rootDir, tree, packageJsonFiles, csvData, csvFile,
                   writeCount, outstanding, abortCause, probe>>

\* Faulty variant: one row per distinct name instead of one per declaration
joinedRowsPerName ==
    LET FirstOfName(i) == \A j \in 1..(i - 1) :
                              dependencies[j].dependency # dependencies[i].dependency
        distinct == SelectSeq([i \in 1..Len(dependencies) |-> i], FirstOfName)
    IN [i \in 1..Len(distinct) |->
           joinRow(dependencies[distinct[i]], libyearResults, npmCheckResults,
                   nodeCompatibilityResults)]

joinedRows ==
    [i \in 1..Len(dependencies) |->
        joinRow(dependencies[i], libyearResults, npmCheckResults, nodeCompatibilityResults)]

\* Faulty variant: the file is rewritten after each manifest
JoinDependenciesStreaming ==
    /\ pc = "nodeCompatibility"
    /\ Len(nodeCompatibilityResults) = Len(dependencies)
    /\ ~NoValidLibyearData
    /\ csvData' = csvData \o joinedRows
    /\ csvFile' = csvData'
    /\ writeCount' = 1
    /\ manifestLog' = [Stepped("join")
                          EXCEPT ![Len(manifestLog)].rowsAfter = Len(csvData')]
    /\ EndOfIteration
    /\ UNCHANGED <<rootExists, rootDir, tree, packageJsonFiles, outstanding,
                   abortCause, probe>>

\* for (const dep of dependencies) { ...; csvData.push(result); }
JoinDependencies ==
    /\ pc = "nodeCompatibility"
    /\ Len(nodeCompatibilityResults) = Len(dependencies)
    /\ ~NoValidLibyearData
    /\ csvData' = csvData \o joinedRows
    /\ manifestLog' = [Stepped("join")
                          EXCEPT ![Len(manifestLog)].rowsAfter = Len(csvData')]
    /\ EndOfIteration
    /\ UNCHANGED <<rootExists, rootDir, tree, packageJsonFiles, csvFile, writeCount,
                   outstanding, abortCause, probe>>

\* await generateCsv(csvData, rootDirName);
GenerateCsv ==
    /\ pc = "loop"
    /\ fileIdx > Len(packageJsonFiles)
    /\ csvFile' = csvData
    /\ writeCount' = writeCount + 1
    /\ pc' = "done"
    /\ UNCHANGED <<rootExists, rootDir, tree, packageJsonFiles, fileIdx, dependencies,
                   libyearResults, npmCheckResults, nodeCompatibilityResults, csvData,
                   outstanding, abortCause, manifestLog, probe>>

Next ==
    \/ DirectoryNotFound
    \/ FindManifests
    \/ AnalyzeDependencies
    \/ RunLibyearAnalysis
    \/ LibyearExit
    \/ RunNpmCheck
    \/ NpmCheckSettled
    \/ FetchNpmPackageInfo
    \/ RegistryResponse
    \/ SkipManifest
    \/ JoinDependencies
    \/ GenerateCsv

Spec == Init /\ [][Next]_vars

-----------------------------------------------------------------------------
(* The locator on its own, over every tree of at most MaxEntries entries   *)

LocatorInit ==
    /\ \E listing \in ListingsFrom(1, MaxEntries) :
           InitWith(TRUE, <<"work", "myproj">>, listing)
    /\ probe = <<>>

LocatorSpec == LocatorInit /\ [][FindManifests]_vars

(* findLatestCompatibleVersion on its own, over registry snapshots of at   *)
(* most MaxVersions versions in any key order                              *)

VersionKeys == {"1.0.0", "2.0.0", "3.0.0"}
EngineChoices ==
    { Undefined, JsStr(""), JsStr(">=12 <16"), JsStr(">=16"), JsStr(">=18 <20"),
      JsStr("not a range") }
NodeVersionRanges == {"^16.0.0", "^18.0.0", "^20.0.0"}

Snapshots ==
    UNION { { versions \in [1..len -> [version : VersionKeys, node : EngineChoices]] :
                \A i, j \in 1..len : i # j => versions[i].version # versions[j].version } :
            len \in 0..MaxVersions }

ResolverInit ==
    /\ InitWith(TRUE, <<".">>, <<>>)
    /\ \E versions \in Snapshots, nodeVersion \in NodeVersionRanges :
           probe = <<[npmData |-> NpmObject(versions), nodeVersion |-> nodeVersion]>>

ResolveVersion ==
    /\ Len(probe) = 1
    /\ probe' = Append(probe,
                       findLatestCompatibleVersion(probe[1].npmData, probe[1].nodeVersion))
    /\ UNCHANGED <<rootExists, rootDir, tree, pc, packageJsonFiles, fileIdx,
                   dependencies, libyearResults, npmCheckResults,
                   nodeCompatibilityResults, csvData, csvFile, writeCount, outstanding,
                   abortCause, manifestLog>>

ResolverSpec == ResolverInit /\ [][ResolveVersion]_vars

-----------------------------------------------------------------------------
(* Vocabulary of the properties *)

LastStep(m) == m.steps[Len(m.steps)]
Finished(m) == LastStep(m) \in {"join", "skip"}
Logs == {manifestLog[k] : k \in DOMAIN manifestLog}
RowsOf(m) == SubSeq(csvData, m.rowsBefore + 1, m.rowsAfter)
IsPrefix(a, b) == Len(a) <= Len(b) /\ SubSeq(b, 1, Len(a)) = a

\* Every entry of a tree, with its path
RECURSIVE EntryPaths(_, _)
EntryPaths(dir, files) ==
    IF files = <<>> THEN {}
    ELSE LET entry == Head(files)
             path == Append(dir, entry.name)
         IN {[path |-> path, kind |-> entry.kind]}
            \cup (IF entry.kind = "dir" THEN EntryPaths(path, entry.children) ELSE {})
            \cup EntryPaths(dir, Tail(files))

ManifestEntries ==
    {e \in EntryPaths(rootDir, tree) : e.kind = "file" /\ PathBasename(e.path) = "package.json"}
UnderNodeModules(path) ==
    \E i \in (Len(rootDir) + 1)..(Len(path) - 1) : path[i] = "node_modules"

\* Whether a range string admits Node major version m
Admits(range, m) ==
    /\ range.t = "string"
    /\ SemverRange(range.s).valid
    /\ SemverRange(range.s).lo <= m
    /\ m <= SemverRange(range.s).hi
NodeMajors == 0..25

-----------------------------------------------------------------------------
(* Properties *)

\* C1: when the libyear process fails for a manifest (exec reports an error),
\* no row is emitted for that manifest, the run does not abort, the later
\* manifests are still processed and the report is written at the end.
C1_DriftFailureSkipsManifest ==
    \A k \in DOMAIN manifestLog :
        manifestLog[k].libyear = "error" =>
            /\ manifestLog[k].rowsAfter = manifestLog[k].rowsBefore
            /\ ~(pc = "aborted" /\ abortCause = "libyear: exec error")
            /\ (pc = "done" => writeCount = 1 /\ Len(manifestLog) = Len(packageJsonFiles))

C3_RegistryFailureNeverPropagates ==
    pc = "aborted" => abortCause # "TypeError: Object.keys of undefined versions"

C5_LastCompatibleVersion ==
    Len(probe) = 2 =>
        LET versions == probe[1].npmData.versions
            compatible == {i \in 1..Len(versions) :
                              \E m \in NodeMajors :
                                  /\ Admits(versions[i].node, m)
                                  /\ Admits(JsStr(probe[1].nodeVersion), m)}
        IN /\ \A i \in compatible : Truthy(versions[i].node)
           /\ compatible = {} => probe[2] = "Not informed"
           /\ compatible # {} =>
                  \E i \in compatible :
                      /\ \A j \in compatible : j <= i
                      /\ probe[2] = versions[i].version
C5_Witness ==
    /\ Len(probe) = 2
    /\ Len(probe[1].npmData.versions) = 2
    /\ probe[1].npmData.versions[1] = Version("2.0.0", JsStr(">=16"))
    /\ probe[1].npmData.versions[2] = Version("1.0.0", JsStr(">=18 <20"))
    /\ probe[1].nodeVersion = "^18.0.0"
    /\ probe[2] = "1.0.0"

\* C6: the join never aborts on a miss: every declaration of a joined manifest
\* gets a row with its own name, module, type and version; with no libyear
\* record of its name the row has latest version, drift and pulse "Unknown"
\* and releases, major, minor, patch "0"; with no npm-check record of its name
\* (the list being empty when npm-check failed) it has latest and wanted
\* version "Unknown" and easy upgrade and unused false.
C6_JoinMissDegradesToDefaults ==
    [][(/\ pc = "nodeCompatibility"
        /\ Len(nodeCompatibilityResults) = Len(dependencies)
        /\ ~NoValidLibyearData)
       => (/\ pc' = "loop"
           /\ Len(csvData') = Len(csvData) + Len(dependencies)
           /\ \A i \in 1..Len(dependencies) :
                  LET dep == dependencies[i]
                      row == csvData'[Len(csvData) + i]
                      inLibyear == \E r \in 1..Len(libyearResults.items) :
                                       libyearResults.items[r].dependency = dep.dependency
                      inNpmCheck == \E r \in 1..Len(npmCheckResults) :
                                        npmCheckResults[r].moduleName = dep.dependency
                  IN /\ row.dependency = dep.dependency
                     /\ row.module = dep.module
                     /\ row.type = dep.type
                     /\ row.currentVersion = dep.version
                     /\ ~inLibyear =>
                            /\ row.latestVersion = JsStr("Unknown")
                            /\ row.drift = "Unknown"
                            /\ row.pulse = "Unknown"
                            /\ row.releases = JsStr("0")
                            /\ row.major = JsStr("0")
                            /\ row.minor = JsStr("0")
                            /\ row.patch = JsStr("0")
                     /\ ~inNpmCheck =>
                            /\ row.npmLatest = JsStr("Unknown")
                            /\ row.npmWanted = JsStr("Unknown")
                            /\ row.easyUpgrade = JsBool(FALSE)
                            /\ row.unused = JsBool(FALSE))]_vars
C6_Witness ==
    \E i, j \in DOMAIN csvData :
        /\ csvData[i].drift = "Unknown"
        /\ csvData[i].releases = JsStr("0")
        /\ csvData[i].npmLatest = JsStr("Unknown")
        /\ csvData[i].easyUpgrade = JsBool(FALSE)
        /\ csvData[j].drift = "3,14"
        /\ csvData[j].npmWanted = JsStr("Unknown")

\* C7: the output file is written at most once, only when every manifest of
\* the list has been joined or skipped; until then the file holds no row, so
\* an aborted run leaves none of the rows accumulated before the abort.
C7_WrittenOnceAtTheEnd ==
    /\ writeCount <= 1
    /\ writeCount = 0 => csvFile = <<>>
    /\ writeCount = 1 =>
           /\ pc = "done"
           /\ csvFile = csvData
           /\ fileIdx > Len(packageJsonFiles)
           /\ Len(manifestLog) = Len(packageJsonFiles)
           /\ \A m \in Logs : Finished(m)
    /\ pc = "aborted" => writeCount = 0 /\ csvFile = <<>>
C7_Witness ==
    /\ pc = "done"
    /\ writeCount = 1
    /\ Len(packageJsonFiles) = 2
    /\ Len(csvFile) >= 2
    /\ \E m \in Logs : LastStep(m) = "skip"

\* C8: findPackageJsonFiles returns exactly the paths of the files named
\* package.json that lie under no directory named node_modules, each once.
C8_LocatorFindsManifestsOutsideNodeModules ==
    pc = "loop" =>
        /\ {packageJsonFiles[i] : i \in DOMAIN packageJsonFiles}
               = {e.path : e \in {m \in ManifestEntries : ~UnderNodeModules(m.path)}}
        /\ \A i, j \in DOMAIN packageJsonFiles :
               i # j => packageJsonFiles[i] # packageJsonFiles[j]
C8_Witness ==
    /\ pc = "loop"
    /\ Len(packageJsonFiles) >= 1
    /\ \E m \in ManifestEntries : UnderNodeModules(m.path)
    /\ \E i \in DOMAIN packageJsonFiles : Len(packageJsonFiles[i]) > Len(rootDir) + 1

\* C9: the declarations of a manifest all carry one module label: the root
\* directory's basename when the manifest's directory has that basename, and
\* "<root>/<directory basename>" otherwise; so "myproj" for the manifest of
\* root myproj and "myproj/foo" for the one in pkgs/foo.
C9_ModuleLabel ==
    \A m \in Logs :
        LET dirName == m.file[Len(m.file) - 1]
            root == rootDir[Len(rootDir)]
            label == IF Len(m.file) = 1 THEN "."
                     ELSE IF dirName = root THEN root
                     ELSE root \o "/" \o dirName
        IN /\ \A i \in DOMAIN m.declared : m.declared[i].module = label
           /\ \A i \in DOMAIN RowsOf(m) : RowsOf(m)[i].module = label
           /\ m.file = <<"work", "myproj", "package.json">> => label = "myproj"
           /\ m.file = <<"work", "myproj", "pkgs", "foo", "package.json">>
                  => label = "myproj/foo"
C9_Witness ==
    \E i, j \in DOMAIN csvData :
        /\ csvData[i].module = "myproj"
        /\ csvData[j].module = "myproj/foo"

\* C10: at most one external call is outstanding at any time, and it is the
\* call of the current manifest's latest step; the steps of a manifest are
\* parser, libyear, npm-check, one registry request per declaration, then the
\* join or the skip; and a manifest starts only when the one before it has
\* been joined or skipped.
C10_StrictlySequential ==
    /\ Cardinality(outstanding) <= 1
    /\ \A c \in outstanding :
           /\ c.file = Len(manifestLog)
           /\ c.call = LastStep(manifestLog[Len(manifestLog)])
    /\ \A k \in DOMAIN manifestLog :
           LET m == manifestLog[k]
               calls == <<"parser", "libyear", "npm-check">>
                            \o [i \in 1..Len(m.declared) |-> "registry"]
           IN /\ \E last \in {"join", "skip"} : IsPrefix(m.steps, Append(calls, last))
              /\ k < Len(manifestLog) => Finished(m)
C10_Witness ==
    /\ outstanding = {[call |-> "registry", file |-> 2, dep |-> 2]}
    /\ LastStep(manifestLog[1]) = "join"

====
